---- MODULE Spec2Model ----
(***************************************************************************)
(* Ferron Forge (src/src/main.rs): clone a repository into a temporary     *)
(* directory, build it through the Cargo API, and pack the binaries, a     *)
(* default configuration and the `wwwroot` tree into a ZIP archive.        *)
(*                                                                         *)
(* Strings whose content matters are sequences of fragments (a target      *)
(* string, an archive entry name) or TLA+ strings joined with \o (feature  *)
(* flags, the archive comment).  Library calls are modelled by their       *)
(* documented behaviour at the line of main.rs that calls them.            *)
(***************************************************************************)
EXTENDS Naturals, Sequences, FiniteSets, TLC

VARIABLES
  args,                 \* Args: [target, modules], fixed for the run
  pc,                   \* position in main / compile
  stdout,               \* the println! milestones, in order
  exit_code,            \* None while running, Some(status) once the process ended
  error,                \* the error main returned, or the panic message
  temporary_directory,  \* "none" | "exists" | "removed"
  checkout,             \* the tree materialized in the work tree (NoTree before)
  rustup,               \* what toolchain resolution observed
  env,                  \* RUSTUP_TOOLCHAIN and RUSTUP_HOME of the process
  build,                \* locals of compile()
  result,               \* what compile() returned: [ok, binaries, target_triple]
  output_file,          \* the file at args.output: "untouched" | "created"
  zip,                  \* the ZipWriter: [state, entries, comment]
  cursor                \* loop positions: [binary, stack, walked]

vars == <<args, pc, stdout, exit_code, error, temporary_directory, checkout, rustup,
          env, build, result, output_file, zip, cursor>>

-----------------------------------------------------------------------------
(* Bounds of the model *)

MaxModules == 2
MaxBinaries == 2

-----------------------------------------------------------------------------
(* Option values *)

None == [some |-> FALSE]
Some(v) == [some |-> TRUE, val |-> v]

Unset == "<unset>"

-----------------------------------------------------------------------------
(* Command-line arguments *)

ModuleNames == {"cgi", "cache"}

SeqsUpTo(S, n) == UNION {[1..k -> S] : k \in 0..n}

\* Fragments a target string is made of.
Blank == " "
HostTriple == "x86_64-unknown-linux-gnu"
CrossTriple == "aarch64-unknown-linux-gnu"
Bogus == "not-a-triple"
JsonExt == ".json"

TargetStrings ==
  { <<>>, <<Blank>>, <<HostTriple>>, <<CrossTriple>>, <<Blank, CrossTriple>>,
    <<Bogus>>, <<CrossTriple, Bogus>>, <<Bogus, JsonExt>> }

ModuleLists == SeqsUpTo(ModuleNames, MaxModules)

\* Every value of compile's parameters (Option<&str>, Option<&[String]>).
CompileInputs ==
  [ target  : {None} \cup {Some(t) : t \in TargetStrings},
    modules : {None} \cup {Some(m) : m \in ModuleLists} ]

\* What Args::parse yields: each `--modules` occurrence carries one value, so
\* a list that is present holds at least one name.
ArgsSet == {a \in CompileInputs : a.modules.some => a.modules.val # <<>>}

-----------------------------------------------------------------------------
(* The repository's tree under `wwwroot`, as relative paths from it *)

NonUtf8Components == {"caf<E9>.txt"}

Entry(rel, kind) == [rel |-> rel, kind |-> kind]

Root == Entry(<<>>, "dir")

Trees ==
  { {Root},
    {Root, Entry(<<"index.html">>, "file"), Entry(<<"assets">>, "dir"),
     Entry(<<"assets", "empty">>, "dir")},
    {Root, Entry(<<"caf<E9>.txt">>, "file"), Entry(<<"run.sock">>, "other"),
     Entry(<<"robots.txt">>, "file")} }

NoTree == {}

Children(tree, rel) ==
  {e \in tree : Len(e.rel) = Len(rel) + 1 /\ SubSeq(e.rel, 1, Len(rel)) = rel}

-----------------------------------------------------------------------------
(* rustup's settings.toml *)

TomlString(s) == [type |-> "string", str |-> s]
TomlInteger == [type |-> "integer", str |-> ""]

NoTable == [k \in {} |-> TomlInteger]

SettingsFiles ==
  { [state |-> "missing",   table |-> NoTable],
    [state |-> "malformed", table |-> NoTable],
    [state |-> "parsed",    table |-> [k \in {"version"} |-> TomlString("12")]],
    [state |-> "parsed",    table |-> [k \in {"default_toolchain"} |-> TomlInteger]],
    [state |-> "parsed",
     table |-> [k \in {"default_toolchain"} |-> TomlString("stable-x86_64-unknown-linux-gnu")]] }

NotRead == [state |-> "not read", table |-> NoTable]

\* get_rustup_toolchain: Ok(name), Err(..) or a panic of the index expression.
Ok(v) == [tag |-> "ok", val |-> v]
Err(e) == [tag |-> "err", val |-> e]
Panic == [tag |-> "panic", val |-> "index not found"]

get_rustup_toolchain(file) ==
  IF file.state = "missing" THEN Err("io")
  ELSE IF file.state = "malformed" THEN Err("parse")
  ELSE IF "default_toolchain" \notin DOMAIN file.table THEN Panic
  ELSE IF file.table["default_toolchain"].type = "string"
       THEN Ok(file.table["default_toolchain"].str)
       ELSE Err("The `rustup` configuration doesn't contain a default toolchain.")

-----------------------------------------------------------------------------
(* Target triples *)

RECURSIVE TrimStart(_)
TrimStart(s) ==
  IF s # <<>> /\ Head(s) = Blank THEN TrimStart(Tail(s)) ELSE s

RECURSIVE TrimEnd(_)
TrimEnd(s) ==
  IF s # <<>> /\ s[Len(s)] = Blank THEN TrimEnd(SubSeq(s, 1, Len(s) - 1)) ELSE s

Trim(s) == TrimEnd(TrimStart(s))

EndsWithJson(s) == s # <<>> /\ s[Len(s)] = JsonExt

CompileTarget_new_unchecked(triplet, json_resolves) ==
  LET name == Trim(triplet) IN
  IF ~EndsWithJson(name) \/ json_resolves THEN Ok(name)
  ELSE Err("target path is not a valid file")

\* CompileTarget::new(triplet): rejects an empty name and a `.json` path that
\* does not resolve to a file; every other name is accepted as it is.
CompileTarget_new(triplet, json_resolves) ==
  LET name == Trim(triplet) IN
  IF name = <<>> THEN Err("target was empty")
  ELSE IF ~EndsWithJson(name) THEN Ok(name)
  ELSE IF json_resolves THEN Ok(name)
  ELSE Err("target path is not a valid file")

\* The triples the compiler has a built-in specification for.
KnownTriples == {<<HostTriple>>, <<CrossTriple>>}

KindHost == [kind |-> "Host", triple |-> <<>>]
KindTarget(t) == [kind |-> "Target", triple |-> t]

-----------------------------------------------------------------------------
(* Feature flags *)

Format_NoSeparator(feature) == "ferron" \o feature

Format(feature) == "ferron/" \o feature

Map(f(_), s) == [i \in 1..Len(s) |-> f(s[i])]

Range(s) == {s[i] : i \in 1..Len(s)}

modules_as_features(modules) ==
  Map(Format, IF modules.some THEN modules.val ELSE <<>>)

default_modules_or_empty(modules) == ~modules.some \/ modules.val = <<>>

default_modules(modules) == ~modules.some

\* CliFeatures::from_command_line(features, all_features, uses_default_features)
CliFeatures(features, all_features, uses_default_features) ==
  [ features |-> Range(features),
    all_features |-> all_features,
    uses_default_features |-> uses_default_features ]

-----------------------------------------------------------------------------
(* Build outputs and archive entries *)

BinaryPaths ==
  { <<"target", "release", "ferron">>,
    <<"target", "release", "ferron-passwd">>,
    <<"target", "release", "..">> }

BinaryLists ==
  {b \in SeqsUpTo(BinaryPaths, MaxBinaries) :
     \A i, j \in 1..Len(b) : b[i] = b[j] => i = j}

\* Path::file_name: the last component, unless the path ends in `..`.
file_name(path) ==
  IF path = <<>> \/ path[Len(path)] = ".." THEN None ELSE Some(path[Len(path)])

\* Path::to_str: None when the path is not valid Unicode.
to_str(rel) ==
  IF \E i \in 1..Len(rel) : rel[i] \in NonUtf8Components THEN None ELSE Some(rel)

\* The relative path as one string: its components joined by separators.
RECURSIVE Join(_)
Join(rel) ==
  IF Len(rel) <= 1 THEN rel ELSE <<Head(rel), "/">> \o Join(Tail(rel))

\* Path::is_file follows symbolic links; a regular file answers TRUE.
is_file(e) == e.kind = "file"

\* The bytes an entry holds: those of `source`, all of them or a part.
Bytes(source, read) == [source |-> source, read |-> read]

FileEntry(name, mode, data) ==
  [name |-> name, type |-> "file", mode |-> mode, data |-> data]

\* ZipWriter::add_directory appends the trailing separator to the name.
DirectoryEntry(name) ==
  [ name |-> IF name # <<>> /\ name[Len(name)] = "/" THEN name ELSE name \o <<"/">>,
    type |-> "dir", mode |-> "default", data |-> Bytes(<<>>, "all") ]

ConfigEntry ==
  FileEntry(<<"ferron.yaml">>, "default",
            Bytes(<<"global:\n  wwwroot: wwwroot">>, "all"))

CommentFor(target_triple) ==
  "Ferron built for \"" \o target_triple \o "\" target using Ferron Forge"

NoZip == [state |-> "none", entries |-> <<>>, comment |-> Unset]

\* Dropping an open ZipWriter writes the central directory of what it holds.
DropZip(z) ==
  IF z.state = "open" THEN [z EXCEPT !.state = "finished by drop"] ELSE z

DropTempDir_Leak(t) == t

\* Dropping the TempDir removes the directory.
DropTempDir(t) == IF t = "exists" THEN "removed" ELSE t

-----------------------------------------------------------------------------
(* Directory walk of WalkDir::new(webroot_path): depth first, a directory *)
(* before its contents, siblings in no particular order.                  *)

RECURSIVE Pending(_, _, _)
Pending(tree, stack, walked) ==
  IF stack = <<>> THEN {}
  ELSE LET rest == Children(tree, stack[Len(stack)]) \ walked IN
       IF rest # {} THEN rest
       ELSE Pending(tree, SubSeq(stack, 1, Len(stack) - 1), walked)

NextEntries(tree, c) ==
  IF c.walked = {} THEN {e \in tree : e.rel = <<>>}
  ELSE Pending(tree, c.stack, c.walked)

\* The open directories once `e` has been yielded.
StackAfter(e) ==
  [i \in 1..Len(e.rel) |-> SubSeq(e.rel, 1, i - 1)]
    \o (IF e.kind = "dir" THEN <<e.rel>> ELSE <<>>)

Visit(c, e) ==
  [c EXCEPT !.stack = StackAfter(e), !.walked = c.walked \cup {e}]

-----------------------------------------------------------------------------
(* Initial state *)

NoBuild ==
  [ entered |-> FALSE, default_modules |-> FALSE, modules_as_features |-> <<>>,
    compile_kind |-> None, cli_features |-> None, invoked |-> FALSE ]

Init ==
  /\ args \in ArgsSet
  /\ pc = "start"
  /\ stdout = <<>>
  /\ exit_code = None
  /\ error = Unset
  /\ temporary_directory = "none"
  /\ checkout = NoTree
  /\ rustup = [home |-> "not read", file |-> NotRead]
  /\ env = [RUSTUP_TOOLCHAIN |-> Unset, RUSTUP_HOME |-> Unset]
  /\ build = NoBuild
  /\ result = None
  /\ output_file = "untouched"
  /\ zip = NoZip
  /\ cursor = [binary |-> 1, stack |-> <<>>, walked |-> {}]

-----------------------------------------------------------------------------
(* Leaving main: `?` returns Err, a panic unwinds, the end returns Ok.  In *)
(* each case the locals are dropped: the ZipWriter, then the TempDir.      *)

Leave(how, code, e, z) ==
  /\ pc' = how
  /\ exit_code' = Some(code)
  /\ error' = e
  /\ zip' = DropZip(z)
  /\ temporary_directory' = DropTempDir(temporary_directory)

ReturnErr(e) == Leave("failed", 1, e, zip)

-----------------------------------------------------------------------------
(* main, lines 52-75: temporary directory and clone *)

CreateTempDir ==
  /\ pc = "start"
  /\ stdout' = Append(stdout, "Creating temporary directory...")
  /\ temporary_directory' = "exists"
  /\ pc' = "clone"
  /\ UNCHANGED <<args, error, exit_code, checkout, rustup, env, build, result,
                 output_file, zip, cursor>>

CreateTempDirFail ==
  /\ pc = "start"
  /\ stdout' = Append(stdout, "Creating temporary directory...")
  /\ ReturnErr("cannot create the temporary directory")
  /\ UNCHANGED <<args, checkout, rustup, env, build, result, output_file, cursor>>

Clone ==
  /\ pc = "clone"
  /\ stdout' = Append(stdout, "Cloning the Git repository...")
  /\ \E tree \in Trees : checkout' = tree
  /\ pc' = "build"
  /\ UNCHANGED <<args, error, exit_code, temporary_directory, rustup, env, build,
                 result, output_file, zip, cursor>>

CloneFail_Ignored ==
  /\ pc = "clone"
  /\ stdout' = Append(stdout, "Cloning the Git repository...")
  /\ pc' = "build"
  /\ UNCHANGED <<args, error, exit_code, temporary_directory, checkout, rustup,
                 env, build, result, output_file, zip, cursor>>

CloneFail ==
  /\ pc = "clone"
  /\ stdout' = Append(stdout, "Cloning the Git repository...")
  /\ ReturnErr("clone failed")
  /\ UNCHANGED <<args, checkout, rustup, env, build, result, output_file, cursor>>

-----------------------------------------------------------------------------
(* compile, lines 165-225 *)

StartBuild_OpensOutput ==
  /\ pc = "build"
  /\ stdout' = Append(stdout, "Compiling Ferron...")
  /\ output_file' = "created"
  /\ pc' = "compile"
  /\ UNCHANGED <<args, error, exit_code, temporary_directory, checkout, rustup,
                 env, build, result, zip, cursor>>

\* lines 69-75: main calls compile
StartBuild ==
  /\ pc = "build"
  /\ stdout' = Append(stdout, "Compiling Ferron...")
  /\ pc' = "compile"
  /\ UNCHANGED <<args, error, exit_code, temporary_directory, checkout, rustup,
                 env, build, result, output_file, zip, cursor>>

\* lines 170-177
CompileBegin ==
  /\ pc = "compile"
  /\ build' = [build EXCEPT !.entered = TRUE,
                            !.default_modules = default_modules(args.modules),
                            !.modules_as_features = modules_as_features(args.modules)]
  /\ pc' = "compile_kind"
  /\ UNCHANGED <<args, error, stdout, exit_code, temporary_directory, checkout,
                 rustup, env, result, output_file, zip, cursor>>

\* lines 180-183
CompileKind ==
  /\ pc = "compile_kind"
  /\ \/ /\ ~args.target.some
        /\ build' = [build EXCEPT !.compile_kind = Some(KindHost)]
     \/ /\ args.target.some
        /\ \E json_resolves \in BOOLEAN :
             LET r == CompileTarget_new(args.target.val, json_resolves) IN
             /\ r.tag = "ok"
             /\ build' = [build EXCEPT !.compile_kind = Some(KindTarget(r.val))]
  /\ pc' = "toolchain"
  /\ UNCHANGED <<args, error, stdout, exit_code, temporary_directory, checkout, rustup,
                 env, result, output_file, zip, cursor>>

CompileKindErr ==
  /\ pc = "compile_kind"
  /\ args.target.some
  /\ \E json_resolves \in BOOLEAN :
       LET r == CompileTarget_new(args.target.val, json_resolves) IN
       /\ r.tag = "err"
       /\ ReturnErr(r.val)
  /\ UNCHANGED <<args, stdout, checkout, rustup, env, build, result,
                 output_file, cursor>>

\* lines 189-198, home::rustup_home() is Err
RustupHomeErr ==
  /\ pc = "toolchain"
  /\ rustup' = [home |-> "err", file |-> NotRead]
  /\ pc' = "context"
  /\ UNCHANGED <<args, error, stdout, exit_code, temporary_directory, checkout, env,
                 build, result, output_file, zip, cursor>>

\* lines 189-198, get_rustup_toolchain returns
ResolveToolchain ==
  /\ pc = "toolchain"
  /\ \E file \in SettingsFiles :
       LET r == get_rustup_toolchain(file) IN
       /\ r.tag # "panic"
       /\ rustup' = [home |-> "ok", file |-> file]
       /\ env' = [ RUSTUP_TOOLCHAIN |->
                     IF r.tag = "ok" THEN r.val ELSE env.RUSTUP_TOOLCHAIN,
                   RUSTUP_HOME |-> "rustup home" ]
  /\ pc' = "context"
  /\ UNCHANGED <<args, error, stdout, exit_code, temporary_directory, checkout, build,
                 result, output_file, zip, cursor>>

\* line 154: the index expression panics and the panic unwinds through main
ResolveToolchainPanic ==
  /\ pc = "toolchain"
  /\ \E file \in SettingsFiles :
       /\ get_rustup_toolchain(file).tag = "panic"
       /\ rustup' = [home |-> "ok", file |-> file]
  /\ Leave("panicked", 101, Panic.val, zip)
  /\ UNCHANGED <<args, stdout, checkout, env, build, result, output_file, cursor>>

\* lines 201-218
Configure ==
  /\ pc = "context"
  /\ build' = [build EXCEPT !.cli_features =
                 Some(CliFeatures(build.modules_as_features, FALSE,
                                  build.default_modules))]
  /\ pc' = "cargo"
  /\ UNCHANGED <<args, error, stdout, exit_code, temporary_directory, checkout, rustup,
                 env, result, output_file, zip, cursor>>

ConfigureFail ==
  /\ pc = "context"
  /\ ReturnErr("cargo context")
  /\ UNCHANGED <<args, stdout, checkout, rustup, env, build, result,
                 output_file, cursor>>

\* The compiler has a specification for the requested kind.
CompilerAccepts(kind) ==
  \/ kind.kind = "Host"
  \/ kind.triple \in KnownTriples
  \/ EndsWithJson(kind.triple)

\* Compilation.host: the triple of the machine the compiler runs on.
CompilationHost == HostTriple

\* lines 221-224
CargoCompile ==
  /\ pc = "cargo"
  /\ CompilerAccepts(build.compile_kind.val)
  /\ build' = [build EXCEPT !.invoked = TRUE]
  /\ \E binaries \in BinaryLists :
       result' = Some([binaries |-> binaries, target_triple |-> CompilationHost])
  /\ pc' = "zip_create"
  /\ UNCHANGED <<args, error, stdout, exit_code, temporary_directory, checkout, rustup,
                 env, output_file, zip, cursor>>

\* line 221: any compilation error, an unsupported target among them
CargoCompileFail ==
  /\ pc = "cargo"
  /\ build' = [build EXCEPT !.invoked = TRUE]
  /\ ReturnErr("could not compile")
  /\ UNCHANGED <<args, stdout, checkout, rustup, env, result, output_file, cursor>>

-----------------------------------------------------------------------------
(* main, lines 77-146: the archive *)

Binaries == result.val.binaries

AddEntry(z, entry) == [z EXCEPT !.entries = Append(z.entries, entry)]

\* lines 77-82
CreateZip ==
  /\ pc = "zip_create"
  /\ stdout' = Append(stdout, "Creating ZIP archive...")
  /\ output_file' = "created"
  /\ zip' = [state |-> "open", entries |-> <<>>, comment |-> Unset]
  /\ pc' = "binaries"
  /\ UNCHANGED <<args, error, exit_code, temporary_directory, checkout, rustup, env,
                 build, result, cursor>>

CreateZipFail ==
  /\ pc = "zip_create"
  /\ stdout' = Append(stdout, "Creating ZIP archive...")
  /\ ReturnErr("cannot create the output file")
  /\ UNCHANGED <<args, checkout, rustup, env, build, result, output_file, cursor>>

\* lines 87-90, the path has no file name
BinarySkip ==
  /\ pc = "binaries"
  /\ cursor.binary <= Len(Binaries)
  /\ ~file_name(Binaries[cursor.binary]).some
  /\ cursor' = [cursor EXCEPT !.binary = cursor.binary + 1]
  /\ UNCHANGED <<args, error, pc, stdout, exit_code, temporary_directory, checkout,
                 rustup, env, build, result, output_file, zip>>

\* lines 87-93
BinaryAdd ==
  /\ pc = "binaries"
  /\ cursor.binary <= Len(Binaries)
  /\ LET path == Binaries[cursor.binary] IN
     /\ file_name(path).some
     /\ zip' = AddEntry(zip, FileEntry(<<file_name(path).val>>, "0o755",
                                       Bytes(path, "all")))
  /\ cursor' = [cursor EXCEPT !.binary = cursor.binary + 1]
  /\ UNCHANGED <<args, error, pc, stdout, exit_code, temporary_directory, checkout,
                 rustup, env, build, result, output_file>>

BinaryFail_SkipAndContinue ==
  /\ pc = "binaries"
  /\ cursor.binary <= Len(Binaries)
  /\ file_name(Binaries[cursor.binary]).some
  /\ cursor' = [cursor EXCEPT !.binary = cursor.binary + 1]
  /\ UNCHANGED <<args, error, pc, stdout, exit_code, temporary_directory,
                 checkout, rustup, env, build, result, output_file, zip>>

\* lines 91-93: File::open, start_file or io::copy fails
BinaryFail ==
  /\ pc = "binaries"
  /\ cursor.binary <= Len(Binaries)
  /\ LET path == Binaries[cursor.binary] IN
     /\ file_name(path).some
     /\ \E step \in {"open", "start_file", "copy"} :
          Leave("failed", 1, "io",
                IF step = "copy"
                THEN AddEntry(zip, FileEntry(<<file_name(path).val>>, "0o755",
                                             Bytes(path, "part")))
                ELSE zip)
  /\ UNCHANGED <<args, stdout, checkout, rustup, env, build, result,
                 output_file, cursor>>

\* lines 97-102
WriteConfig ==
  /\ pc = "binaries"
  /\ cursor.binary > Len(Binaries)
  /\ zip' = AddEntry(zip, ConfigEntry)
  /\ pc' = "walk"
  /\ UNCHANGED <<args, error, stdout, exit_code, temporary_directory, checkout, rustup,
                 env, build, result, output_file, cursor>>

WriteConfigFail ==
  /\ pc = "binaries"
  /\ cursor.binary > Len(Binaries)
  /\ ReturnErr("io")
  /\ UNCHANGED <<args, stdout, checkout, rustup, env, build, result,
                 output_file, cursor>>

\* line 110: the walk yields an error
WalkError ==
  /\ pc = "walk"
  /\ ReturnErr("walkdir")
  /\ UNCHANGED <<args, stdout, checkout, rustup, env, build, result,
                 output_file, cursor>>

\* lines 113-115: the relative path is not valid Unicode, nothing is written
WalkSkipNonUtf8 ==
  /\ pc = "walk"
  /\ \E e \in NextEntries(checkout, cursor) :
       /\ ~to_str(e.rel).some
       /\ cursor' = Visit(cursor, e)
  /\ UNCHANGED <<args, error, pc, stdout, exit_code, temporary_directory, checkout,
                 rustup, env, build, result, output_file, zip>>

\* lines 116-120
AssetFile ==
  /\ pc = "walk"
  /\ \E e \in NextEntries(checkout, cursor) :
       /\ to_str(e.rel).some
       /\ is_file(e)
       /\ zip' = AddEntry(zip, FileEntry(Join(to_str(e.rel).val), "default",
                                         Bytes(e.rel, "all")))
       /\ cursor' = Visit(cursor, e)
  /\ UNCHANGED <<args, error, pc, stdout, exit_code, temporary_directory, checkout,
                 rustup, env, build, result, output_file>>

\* lines 118-120: start_file, File::open or io::copy fails
AssetFileFail ==
  /\ pc = "walk"
  /\ \E e \in NextEntries(checkout, cursor) :
       /\ to_str(e.rel).some
       /\ is_file(e)
       /\ \E step \in {"start_file", "open", "copy"} :
            Leave("failed", 1, "io",
                  IF step = "start_file" THEN zip
                  ELSE AddEntry(zip, FileEntry(Join(to_str(e.rel).val), "default",
                                  Bytes(e.rel, IF step = "open" THEN "none"
                                                                ELSE "part"))))
  /\ UNCHANGED <<args, stdout, checkout, rustup, env, build, result,
                 output_file, cursor>>

AssetDirectory_FilesOnly ==
  /\ pc = "walk"
  /\ \E e \in NextEntries(checkout, cursor) :
       /\ to_str(e.rel).some
       /\ ~is_file(e)
       /\ e.rel # <<>>
       /\ cursor' = Visit(cursor, e)
  /\ UNCHANGED <<args, error, pc, stdout, exit_code, temporary_directory,
                 checkout, rustup, env, build, result, output_file, zip>>

\* lines 121-124
AssetDirectory ==
  /\ pc = "walk"
  /\ \E e \in NextEntries(checkout, cursor) :
       /\ to_str(e.rel).some
       /\ ~is_file(e)
       /\ e.rel # <<>>
       /\ zip' = AddEntry(zip, DirectoryEntry(Join(to_str(e.rel).val)))
       /\ cursor' = Visit(cursor, e)
  /\ UNCHANGED <<args, error, pc, stdout, exit_code, temporary_directory, checkout,
                 rustup, env, build, result, output_file>>

AssetDirectoryFail ==
  /\ pc = "walk"
  /\ \E e \in NextEntries(checkout, cursor) :
       /\ to_str(e.rel).some
       /\ ~is_file(e)
       /\ e.rel # <<>>
  /\ ReturnErr("io")
  /\ UNCHANGED <<args, stdout, checkout, rustup, env, build, result,
                 output_file, cursor>>

\* line 121: the subtree root itself, nothing is written
WalkSkipRoot ==
  /\ pc = "walk"
  /\ \E e \in NextEntries(checkout, cursor) :
       /\ to_str(e.rel).some
       /\ ~is_file(e)
       /\ e.rel = <<>>
       /\ cursor' = Visit(cursor, e)
  /\ UNCHANGED <<args, error, pc, stdout, exit_code, temporary_directory, checkout,
                 rustup, env, build, result, output_file, zip>>

WalkDone == cursor.walked # {} /\ NextEntries(checkout, cursor) = {}

WithComment(z) == [z EXCEPT !.comment = CommentFor(result.val.target_triple)]

\* lines 129-146
Finish ==
  /\ pc = "walk"
  /\ WalkDone
  /\ stdout' = Append(stdout, "Built Ferron for \"" \o result.val.target_triple
                                \o "\" target successfully!")
  /\ Leave("done", 0, error, [WithComment(zip) EXCEPT !.state = "finished"])
  /\ UNCHANGED <<args, checkout, rustup, env, build, result, output_file, cursor>>

\* line 138: zip.finish() fails
FinishFail ==
  /\ pc = "walk"
  /\ WalkDone
  /\ Leave("failed", 1, "io", [WithComment(zip) EXCEPT !.state = "broken"])
  /\ UNCHANGED <<args, stdout, checkout, rustup, env, build, result,
                 output_file, cursor>>

-----------------------------------------------------------------------------

Next ==
  \/ CreateTempDir \/ CreateTempDirFail
  \/ Clone \/ CloneFail
  \/ StartBuild \/ CompileBegin
  \/ CompileKind \/ CompileKindErr
  \/ RustupHomeErr \/ ResolveToolchain \/ ResolveToolchainPanic
  \/ Configure \/ ConfigureFail
  \/ CargoCompile \/ CargoCompileFail
  \/ CreateZip \/ CreateZipFail
  \/ BinarySkip \/ BinaryAdd \/ BinaryFail
  \/ WriteConfig \/ WriteConfigFail
  \/ WalkError \/ WalkSkipNonUtf8 \/ WalkSkipRoot
  \/ AssetFile \/ AssetFileFail \/ AssetDirectory \/ AssetDirectoryFail
  \/ Finish \/ FinishFail

Spec == Init /\ [][Next]_vars

-----------------------------------------------------------------------------
(* compile on its own: called once, with any value of its parameters *)

InitCompile ==
  /\ args \in CompileInputs
  /\ pc = "compile"
  /\ stdout = << "Creating temporary directory...",
                 "Cloning the Git repository...", "Compiling Ferron..." >>
  /\ exit_code = None
  /\ error = Unset
  /\ temporary_directory = "exists"
  /\ checkout \in Trees
  /\ rustup = [home |-> "not read", file |-> NotRead]
  /\ env = [RUSTUP_TOOLCHAIN |-> Unset, RUSTUP_HOME |-> Unset]
  /\ build = NoBuild
  /\ result = None
  /\ output_file = "untouched"
  /\ zip = NoZip
  /\ cursor = [binary |-> 1, stack |-> <<>>, walked |-> {}]

NextCompile ==
  \/ CompileBegin
  \/ CompileKind \/ CompileKindErr
  \/ RustupHomeErr \/ ResolveToolchain \/ ResolveToolchainPanic
  \/ Configure \/ ConfigureFail
  \/ CargoCompile \/ CargoCompileFail

SpecCompile == InitCompile /\ [][NextCompile]_vars

-----------------------------------------------------------------------------
(* Properties *)

Terminal == {"done", "failed", "panicked"}

ArchiveReached == pc \in {"zip_create", "binaries", "walk", "done"}

Milestones ==
  << "Creating temporary directory...", "Cloning the Git repository...",
     "Compiling Ferron...", "Creating ZIP archive..." >>

RECURSIVE ConcatAll(_)
ConcatAll(fragments) ==
  IF fragments = <<>> THEN "" ELSE Head(fragments) \o ConcatAll(Tail(fragments))

\* The triple the build is for: the host's, or the one asked for.
ResolvedTriple ==
  IF args.target.some THEN ConcatAll(Trim(args.target.val)) ELSE HostTriple

IsComponent(fragment) == fragment # "/"

Components(name) == SelectSeq(name, IsComponent)

Entries == {zip.entries[i] : i \in 1..Len(zip.entries)}

FieldMissing ==
  rustup.file.state = "parsed" /\ "default_toolchain" \notin DOMAIN rustup.file.table

\* C1: a settings file that parses but has no default-toolchain field does not
\* abort the run: no panic, no toolchain variable set, and the run is either
\* still going or has ended for a reason of a later step.
C1_MissingFieldIsRecoverable ==
  FieldMissing =>
    /\ pc # "panicked"
    /\ exit_code # Some(101)
    /\ env.RUSTUP_TOOLCHAIN = Unset
    /\ error # Panic.val

C3_CommentNamesResolvedTriple ==
  pc = "done" =>
    /\ result.val.target_triple = ResolvedTriple
    /\ zip.comment = "Ferron built for \"" \o ResolvedTriple
                       \o "\" target using Ferron Forge"

TargetName == Trim(args.target.val)

\* C4 as stated: a target that is no recognized triple fails with an
\* invalid-target error before the compilation routine is invoked, and never
\* reaches archiving.
C4_UnknownTargetFailsBeforeCompilation ==
  (args.target.some /\ TargetName \notin KnownTriples /\ ~EndsWithJson(TargetName)) =>
    /\ ~build.invoked
    /\ ~ArchiveReached
    /\ output_file = "untouched"

\* C4 amended: a target that is empty once trimmed fails with the invalid-target
\* error of the target check, before the compilation routine is invoked; any
\* other name that is no triple of the compiler passes the target check and
\* the run fails at or before the compilation routine; archiving is reached in
\* neither case.
C4_EmptyTargetFailsBeforeCompilation ==
  /\ (args.target.some /\ TargetName = <<>>) =>
       /\ ~build.invoked
       /\ ~build.compile_kind.some
       /\ pc \in {"start", "clone", "build", "compile", "compile_kind", "failed"}
       /\ (pc = "failed" /\ build.entered) => error = "target was empty"
  /\ (args.target.some /\ TargetName \notin KnownTriples /\ ~EndsWithJson(TargetName)) =>
       /\ ~ArchiveReached
       /\ ~result.some
       /\ output_file = "untouched"
       /\ zip.state = "none"
       /\ (pc \in Terminal => pc = "failed" \/ pc = "panicked")

C4_Witness ==
  /\ args.target = Some(<<Blank>>)
  /\ pc = "failed"
  /\ error = "target was empty"
  /\ ~build.invoked

\* C5: the stages start in the order acquire, build, archive, each only after
\* the one before it completed; a failure ends the run with a non-zero status,
\* no later stage starts and nothing is tried again.
C5_StagesInOrder ==
  /\ [](/\ Len(stdout) <= Len(Milestones) + 1
        /\ \A i \in 1..Len(stdout) : i <= Len(Milestones) => stdout[i] = Milestones[i]
        /\ Len(stdout) >= 2 => temporary_directory # "none"
        /\ (Len(stdout) >= 3 \/ build.entered) => checkout # NoTree
        /\ build.entered => Len(stdout) >= 3
        /\ (Len(stdout) >= 4 \/ output_file # "untouched" \/ zip.state # "none")
             => (result.some /\ build.invoked)
        /\ zip.state # "none" => Len(stdout) >= 4
        /\ pc \in {"failed", "panicked"} =>
             /\ exit_code \in {Some(1), Some(101)}
             /\ error # Unset
             /\ zip.state # "finished"
             /\ Len(stdout) <= Len(Milestones)
        /\ pc = "done" <=> exit_code = Some(0)
        /\ pc \notin Terminal <=> exit_code = None)
  /\ [][(pc \in Terminal) => (pc' = pc)]_vars

C5_Witness ==
  /\ pc = "failed"
  /\ error = "could not compile"
  /\ stdout = SubSeq(Milestones, 1, 3)
  /\ output_file = "untouched"

\* C6: the temporary directory is created before the clone, exists while the
\* build runs and while the archive is assembled, and is removed once the run
\* has ended, in success and in failure.
C6_WorkspaceLifetime ==
  /\ pc \notin ({"start"} \cup Terminal) => temporary_directory = "exists"
  /\ (checkout # NoTree \/ Len(stdout) >= 2) => temporary_directory # "none"
  /\ pc \in Terminal =>
       temporary_directory = IF Len(stdout) >= 2 THEN "removed" ELSE "none"

C6_Witness ==
  /\ pc = "failed"
  /\ cursor.walked # {}
  /\ temporary_directory = "removed"

HasFile(e) ==
  \E x \in Entries :
    /\ x.type = "file"
    /\ Components(x.name) = e.rel
    /\ Len(x.name) = 2 * Len(e.rel) - 1
    /\ x.data = Bytes(e.rel, "all")

HasDirectory(e) ==
  \E x \in Entries :
    /\ x.type = "dir"
    /\ Components(x.name) = e.rel
    /\ Len(x.name) = 2 * Len(e.rel)
    /\ x.name[Len(x.name)] = "/"

HasRootEntry == \E x \in Entries : Components(x.name) = <<>>

Named(e) == \E x \in Entries : Components(x.name) = e.rel

\* C7 as stated: in a finished archive every regular file of the subtree is a
\* data entry at its relative path, every directory but the root is a
\* directory entry, and the root has no entry.
C7_EveryAssetHasItsEntry ==
  pc = "done" =>
    /\ \A e \in checkout :
         /\ e.kind = "file" => HasFile(e)
         /\ (e.kind = "dir" /\ e.rel # <<>>) => HasDirectory(e)
    /\ ~HasRootEntry

\* C7 amended: the same, for the entries whose relative path is valid Unicode;
\* an entry whose relative path is not valid Unicode has no entry at all.
C7_EveryUnicodeAssetHasItsEntry ==
  pc = "done" =>
    /\ \A e \in checkout :
         /\ (e.kind = "file" /\ to_str(e.rel).some) => HasFile(e)
         /\ (e.kind = "dir" /\ e.rel # <<>> /\ to_str(e.rel).some) => HasDirectory(e)
         /\ ~to_str(e.rel).some => ~Named(e)
    /\ ~HasRootEntry

C7_Witness ==
  /\ pc = "done"
  /\ Entry(<<"assets", "empty">>, "dir") \in checkout
  /\ \E x \in Entries : x.type = "dir" /\ x.name = <<"assets", "/", "empty", "/">>
  /\ \E x \in Entries : x.type = "file" /\ x.name = <<"index.html">>

ProcessedBinaries ==
  IF result.some THEN {Binaries[i] : i \in 1..(cursor.binary - 1)} ELSE {}

BinaryWritten(path) ==
  \E x \in Entries :
    /\ x.type = "file"
    /\ x.name = <<path[Len(path)]>>
    /\ x.mode = "0o755"
    /\ x.data = Bytes(path, "all")

\* C8 as stated: the assembly skips only a binary without a file name and the
\* subtree root; everything else it has passed is in the archive, and an
\* assembly that failed has not reached finish and is no success.
C8_OnlyTwoSilentSkips ==
  /\ \A b \in ProcessedBinaries : file_name(b).some => BinaryWritten(b)
  /\ \A e \in cursor.walked : e # Root => Named(e)
  /\ (pc = "failed" /\ output_file = "created") =>
       (zip.state # "finished" /\ exit_code = Some(1))

\* C8 amended: the assembly skips a binary without a file name, the subtree
\* root and, as a third case, an asset whose relative path is not valid
\* Unicode; everything else it has passed is in the archive, and an assembly
\* that failed has not reached finish and is no success.
C8_ThreeSilentSkips ==
  /\ \A b \in ProcessedBinaries : file_name(b).some <=> BinaryWritten(b)
  /\ \A e \in cursor.walked : (e # Root /\ to_str(e.rel).some) <=> Named(e)
  /\ (pc = "failed" /\ output_file = "created") =>
       /\ zip.state \in {"finished by drop", "broken"}
       /\ exit_code = Some(1)
       /\ Len(stdout) = Len(Milestones)

C8_Witness ==
  /\ pc = "failed"
  /\ \E b \in ProcessedBinaries : ~file_name(b).some
  /\ \E b \in ProcessedBinaries : file_name(b).some
  /\ \E e \in cursor.walked : ~to_str(e.rel).some
  /\ \E x \in Entries : x.data.read = "none"

\* C9: for a non-empty module list the feature flags handed to the build are
\* exactly the module names, each behind the package name and a slash.
C9_FeaturesArePrefixedModules ==
  (build.cli_features.some /\ args.modules.some /\ args.modules.val # <<>>) =>
    /\ build.cli_features.val.features
         = {"ferron/" \o args.modules.val[i] : i \in 1..Len(args.modules.val)}
    /\ Len(build.modules_as_features) = Len(args.modules.val)
    /\ ~build.cli_features.val.all_features

C9_Witness ==
  /\ args.modules = Some(<<"cgi", "cache">>)
  /\ build.invoked
  /\ build.cli_features.val.features = {"ferron/cgi", "ferron/cache"}

\* C10: the output file is touched only after compile has returned
\* successfully; a run in which the clone or the build fails leaves it as it
\* was.
C10_OutputUntouchedUntilBuilt ==
  /\ output_file # "untouched" => (result.some /\ pc \notin {"start", "clone", "build"})
  /\ (pc \in {"failed", "panicked"} /\ ~result.some) => output_file = "untouched"
  /\ ~build.entered => output_file = "untouched"

C10_Witness ==
  /\ pc = "failed"
  /\ error \in {"clone failed", "could not compile"}
  /\ output_file = "untouched"

====
